---- MODULE Spec2Model ----
(***************************************************************************)
(* Model of app.py, the CPF validation API.                                *)
(*                                                                         *)
(* A Python string is a sequence of one-character strings.  The three     *)
(* core functions (the re.sub normalisation, validar_cpf, formatar_cpf)   *)
(* are operators computed the way the code computes them.  SpecCore runs  *)
(* them over a bounded set of input strings; Spec runs the HTTP handlers  *)
(* for a set of concurrent requests.                                      *)
(***************************************************************************)
EXTENDS Integers, Sequences, FiniteSets, TLC

VARIABLES
    \* core pipeline (SpecCore)
    raw,          \* the input string
    op,           \* position in the pipeline
    cpf_limpo,    \* re.sub(r'[^0-9]', '', raw)
    valido,       \* validar_cpf(raw)
    formatado,    \* formatar_cpf(raw)
    reformatado,  \* formatar_cpf(formatar_cpf(raw))
    revalido,     \* validar_cpf(formatar_cpf(raw))
    \* HTTP service (Spec)
    pc,           \* per request: position of its handler
    rota,         \* per request: the view function the request was routed to
    caminho,      \* per request: the <cpf> segment of the path (GET)
    data,         \* per request: the parsed JSON body, request.get_json()
    i,            \* per request: index of the next item of the batch loop
    resultados,   \* per request: the batch loop's list of results
    resp          \* per request: the response

core_vars == <<raw, op, cpf_limpo, valido, formatado, reformatado, revalido>>
http_vars == <<pc, rota, caminho, data, i, resultados, resp>>
vars == <<raw, op, cpf_limpo, valido, formatado, reformatado, revalido,
          pc, rota, caminho, data, i, resultados, resp>>

----------------------------------------------------------------------------
(* Bounds of the model *)

\* longest freely enumerated short input string
MaxShort == 3
\* most characters appended after a complete 11-digit CPF
MaxExtra == 2
\* longest list of a batch request
MaxBatch == 2

----------------------------------------------------------------------------
(* Strings *)

DigitChars == {"0", "1", "2", "3", "4", "5", "6", "7", "8", "9"}

\* Python's None, where a string is expected
None == <<"None">>

\* int(c) for a one-character string of [0-9]
int(c) ==
    CASE c = "0" -> 0 [] c = "1" -> 1 [] c = "2" -> 2 [] c = "3" -> 3
      [] c = "4" -> 4 [] c = "5" -> 5 [] c = "6" -> 6 [] c = "7" -> 7
      [] c = "8" -> 8 [] c = "9" -> 9

\* the character class [^0-9]
nao_numerico(c) == c \notin DigitChars

manter(c) == ~nao_numerico(c)

----------------------------------------------------------------------------
(* The core functions *)

\* bug: the class [^0-9.] keeps the dots
re_sub_mantem_ponto(cpf) == SelectSeq(cpf, LAMBDA c : c \in DigitChars \cup {"."})

\* re.sub(r'[^0-9]', '', cpf): every match of [^0-9] replaced by ''
re_sub(cpf) == SelectSeq(cpf, manter)

sequencias_invalidas ==
    { [k \in 1..11 |-> c] : c \in DigitChars }

\* soma = 0; for i in range(n): soma += int(cpf[i]) * (peso - i)
RECURSIVE somar(_, _, _, _)
somar(cpf, n, peso, k) ==
    IF k >= n THEN 0
    ELSE int(cpf[k + 1]) * (peso - k) + somar(cpf, n, peso, k + 1)

\* bug: resto > 10 in place of resto >= 10
digito1_maior(cpf) ==
    LET soma == somar(cpf, 9, 10, 0)
        resto == 11 - (soma % 11)
    IN  IF resto > 10 THEN 0 ELSE resto

digito1(cpf) ==
    LET soma == somar(cpf, 9, 10, 0)
        resto == 11 - (soma % 11)
    IN  IF resto >= 10 THEN 0 ELSE resto

\* bug: the second loop copied with range(9)
digito2_range9(cpf) ==
    LET soma == somar(cpf, 9, 11, 0)
        resto == 11 - (soma % 11)
    IN  IF resto >= 10 THEN 0 ELSE resto

digito2(cpf) ==
    LET soma == somar(cpf, 10, 11, 0)
        resto == 11 - (soma % 11)
    IN  IF resto >= 10 THEN 0 ELSE resto

\* the two check-digit comparisons, lines 28-48
digitos_conferem(cpf) ==
    IF digito1(cpf) # int(cpf[10]) THEN FALSE
    ELSE IF digito2(cpf) # int(cpf[11]) THEN FALSE
    ELSE TRUE

\* bug: len(cpf) < 11 in place of len(cpf) != 11
validar_cpf_menor(s) ==
    LET cpf == re_sub(s)
    IN  IF Len(cpf) < 11 THEN FALSE
        ELSE IF cpf \in sequencias_invalidas THEN FALSE
        ELSE digitos_conferem(cpf)

validar_cpf(s) ==
    LET cpf == re_sub(s)
    IN  IF Len(cpf) # 11 THEN FALSE
        ELSE IF cpf \in sequencias_invalidas THEN FALSE
        ELSE digitos_conferem(cpf)

\* bug: the last slice shifted by one, cpf_limpo[8:10]
fstring_deslocado(limpo) ==
    SubSeq(limpo, 1, 3) \o <<".">> \o SubSeq(limpo, 4, 6) \o <<".">>
        \o SubSeq(limpo, 7, 9) \o <<"-">> \o SubSeq(limpo, 9, 10)

\* f"{cpf_limpo[:3]}.{cpf_limpo[3:6]}.{cpf_limpo[6:9]}-{cpf_limpo[9:]}"
fstring(limpo) ==
    SubSeq(limpo, 1, 3) \o <<".">> \o SubSeq(limpo, 4, 6) \o <<".">>
        \o SubSeq(limpo, 7, 9) \o <<"-">> \o SubSeq(limpo, 10, Len(limpo))

formatar_cpf(cpf) ==
    LET limpo == re_sub(cpf)
    IN  IF Len(limpo) = 11 THEN fstring(limpo) ELSE cpf

----------------------------------------------------------------------------
(* Input strings of the core pipeline *)

\* all sequences over S of length 0..n
RECURSIVE SeqsUpTo(_, _)
SeqsUpTo(S, n) ==
    IF n = 0 THEN { <<>> }
    ELSE LET shorter == SeqsUpTo(S, n - 1)
         IN  shorter \cup { Append(s, c) : s \in { t \in shorter : Len(t) = n - 1 }, c \in S }

Stems ==
    { [k \in 1..9 |-> c] : c \in DigitChars }
    \cup { <<"1", "1", "1", "4", "4", "4", "7", "7", c>> : c \in DigitChars }
    \cup { <<"1", "2", "3", "4", "5", "6", "7", "8", "9">>,
           <<"5", "2", "9", "9", "8", "2", "2", "4", "7">> }

Digits11 == { st \o <<a, b>> : st \in Stems, a \in DigitChars, b \in DigitChars }

Pontuado(d) ==
    SubSeq(d, 1, 3) \o <<".">> \o SubSeq(d, 4, 6) \o <<".">>
        \o SubSeq(d, 7, 9) \o <<"-">> \o SubSeq(d, 10, 11)

Sujo(d) ==
    <<" ">> \o SubSeq(d, 1, 5) \o <<"a", "/">> \o SubSeq(d, 6, 11) \o <<"-">>

ExemploValido == <<"1", "1", "1", ".", "4", "4", "4", ".", "7", "7", "7", "-", "3", "5">>
ExemploInvalido == <<"1", "2", "3", ".", "4", "5", "6", ".", "7", "8", "9", "-", "1", "0">>
ExemploZeros == <<"0", "0", "0", ".", "0", "0", "0", ".", "0", "0", "0", "-", "0", "0">>

CoreInputs ==
    Digits11
    \cup { Pontuado(d) : d \in Digits11 }
    \cup { Sujo(d) : d \in Digits11 }
    \cup SeqsUpTo({"1", ".", "-", "a"}, MaxShort)
    \cup { SubSeq(ExemploValido, 1, k) : k \in 0..14 }
    \cup { ExemploValido \o e : e \in SeqsUpTo({"3", "."}, MaxExtra) }

----------------------------------------------------------------------------
(* JSON values, as request.get_json() hands them to the handlers *)

\* the requests in flight at the same time
Requests == {"r1", "r2"}

\* a value that is a field of the body or an element of a list:
\* tipo is its Python type, texto a str's characters, itens what iterating
\* a list (its elements) or a dict (its keys) yields
Str(s) == [tipo |-> "str", texto |-> s, itens |-> <<>>]
Inteiro == [tipo |-> "int", texto |-> <<>>, itens |-> <<>>]
Nulo == [tipo |-> "NoneType", texto |-> <<>>, itens |-> <<>>]
Lista(l) == [tipo |-> "list", texto |-> <<>>, itens |-> l]
Dict(keys) == [tipo |-> "dict", texto |-> <<>>, itens |-> keys]

\* the body: tipo is its Python type, vazio its falsiness (not data), contem
\* the keys k for which (k in data) is true, cpf and cpfs the values data[k]
Corpo(tipo, vazio, contem, cpf, cpfs) ==
    [tipo |-> tipo, vazio |-> vazio, contem |-> contem, cpf |-> cpf, cpfs |-> cpfs]

JsonNull == Corpo("NoneType", TRUE, {}, Nulo, Nulo)

SujoValido == Sujo(re_sub(ExemploValido))

Textos == { ExemploValido, ExemploInvalido, SujoValido }

\* string elements of a batch list
Itens == { Str(SujoValido), Str(ExemploInvalido) }

\* values of the cpf field
ValoresCpf ==
    { Str(s) : s \in Textos \cup { <<>>, ExemploValido \o <<"3">>, [k \in 1..11 |-> "7"] } }
    \cup { Inteiro, Nulo, Lista(<<Str(ExemploValido)>>) }

\* values of the cpfs field
ValoresCpfs ==
    { Lista(l) : l \in SeqsUpTo(Itens, MaxBatch) }
    \cup { Lista(<<Inteiro>>), Lista(<<Str(ExemploValido), Inteiro>>) }
    \cup { Str(<<"1", "-">>), Dict(<<Str(ExemploValido)>>), Inteiro, Nulo }

Bodies ==
    { Corpo("dict", FALSE, {"cpf"}, v, Nulo) : v \in ValoresCpf }
    \cup { Corpo("dict", FALSE, {"cpfs"}, Nulo, v) : v \in ValoresCpfs }
    \cup { Corpo("dict", FALSE, {"cpf", "cpfs"}, Str(ExemploValido), Lista(<<Str(ExemploInvalido)>>)),
           Corpo("dict", FALSE, {}, Nulo, Nulo),      \* {"outro": 1}
           Corpo("dict", TRUE, {}, Nulo, Nulo),       \* {}
           Corpo("list", TRUE, {}, Nulo, Nulo),       \* []
           Corpo("list", FALSE, {"cpf"}, Nulo, Nulo), \* ["cpf"]
           Corpo("list", FALSE, {"cpfs"}, Nulo, Nulo),\* ["cpfs"]
           Corpo("str", TRUE, {}, Nulo, Nulo),        \* ""
           Corpo("str", FALSE, {"cpf", "cpfs"}, Nulo, Nulo), \* "cpfs"
           Corpo("int", TRUE, {}, Nulo, Nulo),        \* 0
           Corpo("int", FALSE, {}, Nulo, Nulo),       \* 5
           JsonNull }

----------------------------------------------------------------------------
(* Responses.  The message texts are written without their accents. *)

SemResposta == [status |-> 0, corpo |-> "nenhum"]

\* an exception no handler catches: Flask answers 500
Erro500(excecao) == [status |-> 500, corpo |-> [excecao |-> excecao]]

Resposta(status, corpo) == [status |-> status, corpo |-> corpo]

\* formatar_cpf(cpf) if valido else None
formatado_sempre(cpf, v) == formatar_cpf(cpf)

formatado_se_valido(cpf, v) == IF v THEN formatar_cpf(cpf) ELSE None

\* the response_data of validar_get and validar_post
response_data(cpf) ==
    LET v == validar_cpf(cpf)
    IN  [cpf |-> cpf,
         cpf_limpo |-> re_sub(cpf),
         valido |-> v,
         formatado |-> formatado_se_valido(cpf, v),
         mensagem |-> IF v THEN "CPF valido" ELSE "CPF invalido"]

\* bug: a flag left set by the previous item
acrescentar_dependente(res, cpf) ==
    LET v == validar_cpf(cpf) \/ (Len(res) > 0 /\ res[Len(res)].valido)
    IN  Append(res, [cpf |-> cpf, valido |-> v, formatado |-> formatado_se_valido(cpf, v)])

\* bug: an input seen before is not appended again
acrescentar_sem_repetir(res, cpf) ==
    LET v == validar_cpf(cpf)
    IN  IF \E k \in 1..Len(res) : res[k].cpf = cpf THEN res
        ELSE Append(res, [cpf |-> cpf, valido |-> v, formatado |-> formatado_se_valido(cpf, v)])

\* valido = validar_cpf(cpf); resultados.append({...})
acrescentar(res, cpf) ==
    LET v == validar_cpf(cpf)
    IN  Append(res, [cpf |-> cpf, valido |-> v, formatado |-> formatado_se_valido(cpf, v)])

\* sum(1 for r in resultados if r['valido'] == b)
RECURSIVE contar(_, _)
contar(res, b) ==
    IF res = <<>> THEN 0
    ELSE (IF Head(res).valido = b THEN 1 ELSE 0) + contar(Tail(res), b)

\* what "for cpf in data['cpfs']" iterates over
iteravel(v) == v.tipo \in {"list", "str", "dict"}

elementos(v) ==
    IF v.tipo = "str"
    THEN [k \in 1..Len(v.texto) |-> Str(<<v.texto[k]>>)]
    ELSE v.itens

----------------------------------------------------------------------------
(* The handlers *)

\* the service is idle while the core functions are exercised on their own
HttpIdle ==
    /\ pc = [r \in Requests |-> "idle"]
    /\ rota = [r \in Requests |-> "nenhuma"]
    /\ caminho = [r \in Requests |-> None]
    /\ data = [r \in Requests |-> JsonNull]
    /\ i = [r \in Requests |-> 0]
    /\ resultados = [r \in Requests |-> <<>>]
    /\ resp = [r \in Requests |-> SemResposta]

Init ==
    /\ raw = None
    /\ op = "parado"
    /\ cpf_limpo = None
    /\ valido = FALSE
    /\ formatado = None
    /\ reformatado = None
    /\ revalido = FALSE
    /\ HttpIdle

Responder(r, resposta) ==
    /\ resp' = [resp EXCEPT ![r] = resposta]
    /\ pc' = [pc EXCEPT ![r] = "done"]

home(r) ==
    /\ pc[r] = "idle"
    /\ rota' = [rota EXCEPT ![r] = "home"]
    /\ Responder(r, Resposta(200,
            [message |-> "API de Validacao de CPF",
             endpoints |-> [validar |-> "/validar/{cpf}",
                            validar_post |-> "/validar (POST)",
                            exemplo |-> "/validar/11144477735"]]))
    /\ UNCHANGED <<caminho, data, i, resultados>>
    /\ UNCHANGED core_vars

validar_get(r) ==
    /\ pc[r] = "idle"
    /\ \E cpf \in Textos \cup { <<"l", "o", "t", "e">> } :
        /\ caminho' = [caminho EXCEPT ![r] = cpf]
        /\ Responder(r, Resposta(200, response_data(cpf)))
    /\ rota' = [rota EXCEPT ![r] = "validar_get"]
    /\ UNCHANGED <<data, i, resultados>>
    /\ UNCHANGED core_vars

\* the response of validar_post to the body d
resposta_post(d) ==
    IF d.vazio THEN Resposta(400, [erro |-> "CPF nao fornecido"])
    ELSE IF d.tipo = "int" THEN Erro500("TypeError")          \* 'cpf' in 5
    ELSE IF "cpf" \notin d.contem THEN Resposta(400, [erro |-> "CPF nao fornecido"])
    ELSE IF d.tipo # "dict" THEN Erro500("TypeError")         \* data['cpf'] of a list or str
    ELSE IF d.cpf.tipo # "str" THEN Erro500("TypeError")      \* re.sub of a non-string
    ELSE Resposta(200, response_data(d.cpf.texto))

validar_post(r) ==
    /\ pc[r] = "idle"
    /\ \E d \in Bodies :
        /\ data' = [data EXCEPT ![r] = d]
        /\ Responder(r, resposta_post(d))
    /\ rota' = [rota EXCEPT ![r] = "validar_post"]
    /\ UNCHANGED <<caminho, i, resultados>>
    /\ UNCHANGED core_vars

\* validar_lote reaches its loop: the field is there and can be iterated
entra_no_laco(d) ==
    /\ ~d.vazio
    /\ d.tipo = "dict"
    /\ "cpfs" \in d.contem
    /\ iteravel(d.cpfs)

\* the response of validar_lote to a body d that does not reach the loop
resposta_lote_sem_laco(d) ==
    IF d.vazio THEN Resposta(400, [erro |-> "Lista de CPFs nao fornecida"])
    ELSE IF d.tipo = "int" THEN Erro500("TypeError")          \* 'cpfs' in 5
    ELSE IF "cpfs" \notin d.contem
    THEN Resposta(400, [erro |-> "Lista de CPFs nao fornecida"])
    ELSE Erro500("TypeError")      \* data['cpfs'] of a list or str, iter() of an int or None

\* validar_lote up to the start of its loop
validar_lote(r) ==
    /\ pc[r] = "idle"
    /\ rota' = [rota EXCEPT ![r] = "validar_lote"]
    /\ \E d \in Bodies :
        /\ data' = [data EXCEPT ![r] = d]
        /\ IF entra_no_laco(d)
           THEN /\ pc' = [pc EXCEPT ![r] = "loop"]
                /\ resultados' = [resultados EXCEPT ![r] = <<>>]
                /\ i' = [i EXCEPT ![r] = 1]
                /\ UNCHANGED resp
           ELSE /\ Responder(r, resposta_lote_sem_laco(d))
                /\ UNCHANGED <<i, resultados>>
    /\ UNCHANGED caminho
    /\ UNCHANGED core_vars

\* one iteration of "for cpf in data['cpfs']"
lote_item(r) ==
    /\ pc[r] = "loop"
    /\ i[r] <= Len(elementos(data[r].cpfs))
    /\ LET cpf == elementos(data[r].cpfs)[i[r]]
       IN  IF cpf.tipo # "str"
           THEN /\ Responder(r, Erro500("TypeError"))
                /\ UNCHANGED <<i, resultados>>
           ELSE /\ resultados' = [resultados EXCEPT ![r] = acrescentar(@, cpf.texto)]
                /\ i' = [i EXCEPT ![r] = @ + 1]
                /\ UNCHANGED <<pc, resp>>
    /\ UNCHANGED <<rota, caminho, data>>
    /\ UNCHANGED core_vars

\* the loop is exhausted: response_data and the response
lote_fim(r) ==
    /\ pc[r] = "loop"
    /\ i[r] > Len(elementos(data[r].cpfs))
    /\ Responder(r, Resposta(200,
            [total |-> Len(resultados[r]),
             validos |-> contar(resultados[r], TRUE),
             invalidos |-> contar(resultados[r], FALSE),
             resultados |-> resultados[r]]))
    /\ UNCHANGED <<rota, caminho, data, i, resultados>>
    /\ UNCHANGED core_vars

Next ==
    \E r \in Requests :
        \/ home(r)
        \/ validar_get(r)
        \/ validar_post(r)
        \/ validar_lote(r)
        \/ lote_item(r)
        \/ lote_fim(r)

Spec == Init /\ [][Next]_vars

----------------------------------------------------------------------------
(* The core pipeline: each action applies one function to the input *)

InitCore ==
    /\ raw \in CoreInputs
    /\ op = "inicio"
    /\ cpf_limpo = None
    /\ valido = FALSE
    /\ formatado = None
    /\ reformatado = None
    /\ revalido = FALSE
    /\ HttpIdle

Normalizar ==
    /\ op = "inicio"
    /\ cpf_limpo' = re_sub(raw)
    /\ op' = "limpo"
    /\ UNCHANGED <<raw, valido, formatado, reformatado, revalido>>
    /\ UNCHANGED http_vars

Validar ==
    /\ op = "limpo"
    /\ valido' = validar_cpf(raw)
    /\ op' = "validado"
    /\ UNCHANGED <<raw, cpf_limpo, formatado, reformatado, revalido>>
    /\ UNCHANGED http_vars

Formatar ==
    /\ op = "validado"
    /\ formatado' = formatar_cpf(raw)
    /\ op' = "formatado"
    /\ UNCHANGED <<raw, cpf_limpo, valido, reformatado, revalido>>
    /\ UNCHANGED http_vars

Reaplicar ==
    /\ op = "formatado"
    /\ reformatado' = formatar_cpf(formatado)
    /\ revalido' = validar_cpf(formatado)
    /\ op' = "fim"
    /\ UNCHANGED <<raw, cpf_limpo, valido, formatado>>
    /\ UNCHANGED http_vars

NextCore == Normalizar \/ Validar \/ Formatar \/ Reaplicar

SpecCore == InitCore /\ [][NextCore]_vars

----------------------------------------------------------------------------
(* What the claims say about the core functions, stated without the code's
   own helpers: the digits of a string by position, a digit's value by its
   decimal numeral. *)

PosicoesDeDigitos(s) == { k \in 1..Len(s) : s[k] \in DigitChars }

\* the position in s of its k-th digit
PosicaoDoDigito(s, k) ==
    CHOOSE p \in PosicoesDeDigitos(s) :
        Cardinality({ q \in PosicoesDeDigitos(s) : q <= p }) = k

\* the digits of s, in order
DigitosDe(s) ==
    [k \in 1..Cardinality(PosicoesDeDigitos(s)) |-> s[PosicaoDoDigito(s, k)]]

Valor(c) == CHOOSE n \in 0..9 : ToString(n) = c

DigitoEsperado(soma) ==
    LET r == 11 - (soma % 11) IN IF r >= 10 THEN 0 ELSE r

Soma1(d) ==
    10 * Valor(d[1]) + 9 * Valor(d[2]) + 8 * Valor(d[3]) + 7 * Valor(d[4])
    + 6 * Valor(d[5]) + 5 * Valor(d[6]) + 4 * Valor(d[7]) + 3 * Valor(d[8])
    + 2 * Valor(d[9])

Soma2(d) ==
    11 * Valor(d[1]) + 10 * Valor(d[2]) + 9 * Valor(d[3]) + 8 * Valor(d[4])
    + 7 * Valor(d[5]) + 6 * Valor(d[6]) + 5 * Valor(d[7]) + 4 * Valor(d[8])
    + 3 * Valor(d[9]) + 2 * Valor(d[10])

UmDigitoRepetido(d) == Len(d) = 11 /\ \A k \in 1..11 : d[k] = d[1]

CpfValido(s) ==
    LET d == DigitosDe(s)
    IN  /\ Len(d) = 11
        /\ ~UmDigitoRepetido(d)
        /\ Valor(d[10]) = DigitoEsperado(Soma1(d))
        /\ Valor(d[11]) = DigitoEsperado(Soma2(d))

Renderizado(d) ==
    <<d[1], d[2], d[3], ".", d[4], d[5], d[6], ".", d[7], d[8], d[9], "-", d[10], d[11]>>

Validado == op \in {"validado", "formatado", "fim"}
Formatado == op \in {"formatado", "fim"}

\* C1: validar_cpf(s) is true exactly when the digits of s are 11, are not one
\* digit repeated, and both check digits match the weighted sums; it is true
\* for "111.444.777-35", false for "123.456.789-10" and "000.000.000-00".
C1_ValidarIffChecksum ==
    Validado =>
        /\ valido = CpfValido(raw)
        /\ (raw = ExemploValido => valido = TRUE)
        /\ (raw = ExemploInvalido => valido = FALSE)
        /\ (raw = ExemploZeros => valido = FALSE)

C1_Witness == op = "validado" /\ raw = ExemploValido /\ valido = TRUE

\* C2: when the digits of s are not exactly 11, validar_cpf(s) is false and
\* formatar_cpf(s) is s itself; both return a value.
C2_WrongLengthRejectedAndPassedThrough ==
    (Formatado /\ Cardinality(PosicoesDeDigitos(raw)) # 11) =>
        /\ valido = FALSE
        /\ formatado = raw

C2_Witness ==
    /\ op = "formatado"
    /\ Cardinality(PosicoesDeDigitos(raw)) > 11
    /\ valido = FALSE
    /\ formatado = raw

\* C3: the normalisation is exactly the subsequence of the digits of s: only
\* characters 0-9, every digit of s kept, in the same order, of any length.
C3_NormalizeIsDigitSubsequence ==
    op # "inicio" =>
        /\ \A k \in 1..Len(cpf_limpo) : cpf_limpo[k] \in DigitChars
        /\ Len(cpf_limpo) = Cardinality(PosicoesDeDigitos(raw))
        /\ \A k \in 1..Len(cpf_limpo) : cpf_limpo[k] = raw[PosicaoDoDigito(raw, k)]

C3_Witness ==
    /\ op = "limpo"
    /\ Len(cpf_limpo) = 11
    /\ Len(raw) > 11
    /\ raw[1] \notin DigitChars

\* C4: with d the digits of s, formatar_cpf(s) is the 14 characters
\* d[0:3].d[3:6].d[6:9]-d[9:11] when d has 11 digits, and s unchanged otherwise.
C4_FormatRendersOrPassesThrough ==
    Formatado =>
        LET d == DigitosDe(raw)
        IN  IF Len(d) = 11
            THEN formatado = Renderizado(d) /\ Len(formatado) = 14
            ELSE formatado = raw

C4_Witness ==
    /\ op = "formatado"
    /\ Len(cpf_limpo) = 11
    /\ raw[1] = " "
    /\ formatado = Renderizado(cpf_limpo)
    /\ formatado # raw

\* C5: formatar_cpf applied to its own output returns that output, the
\* formatted rendering of a valid CPF is returned as it is, and validar_cpf
\* answers the same on s and on formatar_cpf(s).
C5_FormatIdempotent ==
    op = "fim" =>
        /\ reformatado = formatado
        /\ revalido = valido
        /\ (valido /\ raw = Renderizado(DigitosDe(raw)) => formatado = raw)

C5_Witness ==
    /\ op = "fim"
    /\ valido
    /\ formatado # raw
    /\ reformatado = formatado
    /\ revalido

\* validar_cpf without its list check (lines 20-26 removed)
ValidarSemLista(s) ==
    LET cpf == re_sub(s)
    IN  IF Len(cpf) # 11 THEN FALSE ELSE digitos_conferem(cpf)

\* C10: each sequence of one digit repeated eleven times passes both
\* check-digit comparisons, is rejected by validar_cpf, and would be accepted
\* without the list check.
C10_RepeatedDigitsPassChecksum ==
    (Validado /\ UmDigitoRepetido(DigitosDe(raw))) =>
        /\ digito1(cpf_limpo) = int(cpf_limpo[10])
        /\ digito2(cpf_limpo) = int(cpf_limpo[11])
        /\ valido = FALSE
        /\ ValidarSemLista(raw) = TRUE

C10_Witness ==
    /\ op = "validado"
    /\ raw = [k \in 1..11 |-> "9"]
    /\ valido = FALSE
    /\ digitos_conferem(cpf_limpo)

----------------------------------------------------------------------------
(* What the claims say about the handlers *)

Respondido(r) == pc[r] = "done"

\* the body is a JSON object that has the field
TemCampo(d, campo) == d.tipo = "dict" /\ ~d.vazio /\ campo \in d.contem

\* the body carries a list cpfs of strings
ListaDeStrings(d) ==
    /\ TemCampo(d, "cpfs")
    /\ d.cpfs.tipo = "list"
    /\ \A k \in 1..Len(d.cpfs.itens) : d.cpfs.itens[k].tipo = "str"

LoteRespondido(r) ==
    rota[r] = "validar_lote" /\ Respondido(r) /\ ListaDeStrings(data[r])

Permutacoes(n) ==
    { p \in [1..n -> 1..n] : \A a, b \in 1..n : p[a] = p[b] => a = b }

FormatadoEsperado(s) ==
    IF CpfValido(s) THEN Renderizado(DigitosDe(s)) ELSE None

\* C6: a batch of n strings is answered with total = n, n results in input
\* order, and validos + invalidos = total, each counting its entries.
C6_BatchCounts ==
    \A r \in Requests :
        LoteRespondido(r) =>
            LET itens == data[r].cpfs.itens
                n == Len(itens)
                c == resp[r].corpo
            IN  /\ resp[r].status = 200
                /\ c.total = n
                /\ Len(c.resultados) = n
                /\ \A k \in 1..n : c.resultados[k].cpf = itens[k].texto
                /\ c.validos + c.invalidos = c.total
                /\ c.validos = Cardinality({ k \in 1..n : c.resultados[k].valido })
                /\ c.invalidos = Cardinality({ k \in 1..n : ~c.resultados[k].valido })

C6_Witness ==
    /\ LoteRespondido("r1")
    /\ Len(data["r1"].cpfs.itens) = 2
    /\ data["r1"].cpfs.itens[1] = data["r1"].cpfs.itens[2]
    /\ resp["r1"].corpo.total = 2
    /\ resp["r1"].corpo.validos = 2

\* C7: POST /validar and POST /validar/lote answer 400 exactly when the
\* field is absent from the body, and 200 for every other JSON body.
C7_OnlyMissingFieldIsAnError ==
    \A r \in Requests :
        (Respondido(r) /\ rota[r] \in {"validar_post", "validar_lote"}) =>
            LET campo == IF rota[r] = "validar_post" THEN "cpf" ELSE "cpfs"
            IN  IF TemCampo(data[r], campo)
                THEN resp[r].status = 200
                ELSE resp[r].status = 400

\* C8: every entry of a batch is what validating its string alone gives,
\* whatever the other items, the other requests and the interleaving; a
\* permuted list gets the permuted results and the same counts.
C8_ItemsIndependent ==
    \A r \in Requests :
        (rota[r] = "validar_lote" /\ ListaDeStrings(data[r])) =>
            /\ \A k \in 1..Len(resultados[r]) :
                LET e == resultados[r][k]
                IN  /\ e.cpf = data[r].cpfs.itens[k].texto
                    /\ e.valido = CpfValido(e.cpf)
                    /\ e.formatado = FormatadoEsperado(e.cpf)
                    /\ \A q \in Requests :
                        ( /\ rota[q] \in {"validar_get", "validar_post"}
                          /\ Respondido(q)
                          /\ resp[q].status = 200
                          /\ resp[q].corpo.cpf = e.cpf )
                        => /\ resp[q].corpo.valido = e.valido
                           /\ resp[q].corpo.formatado = e.formatado
            /\ \A q \in Requests :
                (LoteRespondido(r) /\ LoteRespondido(q)
                    /\ Len(data[q].cpfs.itens) = Len(data[r].cpfs.itens)) =>
                    \A p \in Permutacoes(Len(data[r].cpfs.itens)) :
                        (\A k \in DOMAIN p : data[q].cpfs.itens[k] = data[r].cpfs.itens[p[k]]) =>
                            /\ \A k \in DOMAIN p :
                                resp[q].corpo.resultados[k] = resp[r].corpo.resultados[p[k]]
                            /\ resp[q].corpo.total = resp[r].corpo.total
                            /\ resp[q].corpo.validos = resp[r].corpo.validos
                            /\ resp[q].corpo.invalidos = resp[r].corpo.invalidos

C8_Witness ==
    /\ LoteRespondido("r1")
    /\ LoteRespondido("r2")
    /\ data["r1"].cpfs.itens = <<Str(SujoValido), Str(ExemploInvalido)>>
    /\ data["r2"].cpfs.itens = <<Str(ExemploInvalido), Str(SujoValido)>>
    /\ resp["r1"].corpo.resultados[1] = resp["r2"].corpo.resultados[2]
    /\ resp["r1"].corpo.validos = 1
    /\ resp["r2"].corpo.validos = 1

EntradaCoerente(cpf, v, f) ==
    /\ (f = None) <=> (v = FALSE)
    /\ v => /\ Cardinality(PosicoesDeDigitos(cpf)) = 11
            /\ f = Renderizado(DigitosDe(cpf))

\* C9: in every handler formatado is null exactly when valido is false, and
\* when valido is true it is the rendering of the input's canonical digits.
C9_FormattedOnlyWhenValid ==
    \A r \in Requests :
        /\ (rota[r] \in {"validar_get", "validar_post"} /\ Respondido(r) /\ resp[r].status = 200) =>
            LET c == resp[r].corpo
            IN  /\ EntradaCoerente(c.cpf, c.valido, c.formatado)
                /\ c.cpf_limpo = DigitosDe(c.cpf)
                /\ c.valido => c.formatado = Renderizado(c.cpf_limpo)
        /\ rota[r] = "validar_lote" =>
            \A k \in 1..Len(resultados[r]) :
                EntradaCoerente(resultados[r][k].cpf, resultados[r][k].valido,
                                resultados[r][k].formatado)

C9_Witness ==
    /\ rota["r1"] = "validar_get"
    /\ Respondido("r1")
    /\ caminho["r1"] = SujoValido
    /\ resp["r1"].corpo.valido = TRUE
    /\ resp["r1"].corpo.formatado = ExemploValido
    /\ rota["r2"] = "validar_lote"
    /\ Len(resultados["r2"]) = 2
    /\ resultados["r2"][1].formatado = None
    /\ resultados["r2"][2].formatado = ExemploValido

====
